---- MODULE Spec2Model ----
(***************************************************************************)
(* DLE byte-stuffing codec (src/src/lib.rs): DleEncoder::encode and        *)
(* DleEncoder::decode in the escaped and the non-escaped mode.             *)
(*                                                                         *)
(* Slices are sequences; the code's 0-based index i is element i + 1.      *)
(* Every slice access is bounds-checked as in Rust: an access at an index  *)
(* >= the slice length ends the call with the result "Panic".              *)
(***************************************************************************)
EXTENDS Integers, Sequences, FiniteSets, TLC

STX_CHAR == 2
ETX_CHAR == 3
DLE_CHAR == 16
CR_CHAR == 13
\* the literal 0x40 added to / subtracted from an escaped control byte
EscapeShift == 64

(***************************************************************************)
(* Bounds of the model.                                                    *)
(***************************************************************************)
\* longest payload handed to encode
MaxLen == 3
\* longest arbitrary byte string handed to decode
MaxRaw == 4

\* the longest encoding of a payload of MaxLen bytes is 2 * MaxLen + 4
\* (non-escaped, delimited, all bytes DLE); one byte more than that is the
\* smallest capacity for which every encode call succeeds
MaxEncCap == 2 * MaxLen + 5
MaxDecCap == MaxLen + 1
\* decoding MaxRaw bytes produces fewer than MaxRaw - 1 bytes
MaxRawCap == MaxRaw - 1
\* a frame run into by the next one has lost its closing ETX_CHAR (one byte)
\* or DLE_CHAR ETX_CHAR (two bytes)
MaxCut == 2

\* content of an output buffer before a call (no byte the codec handles)
PriorBytes == {170}
\* value of the caller's read_len variable before a call
PriorReadLens == {0, 99}

\* payload bytes: a plain byte and the four reserved bytes
PayloadBytes == {0, STX_CHAR, ETX_CHAR, DLE_CHAR, CR_CHAR}
\* bytes of an arbitrary decoder input: a plain byte, the reserved bytes the
\* decoders test for, a shifted byte that is always a valid
\* escape and the shifted CR, valid only with escape_cr
WireBytes == {0, STX_CHAR, ETX_CHAR, DLE_CHAR,
              STX_CHAR + EscapeShift, CR_CHAR + EscapeShift}

SeqsUpTo(S, n) == UNION {[1..k -> S] : k \in 0..n}
Payloads == SeqsUpTo(PayloadBytes, MaxLen)
\* the second payloads of a two-frame stream
SecondPayloads == {<<>>, <<0>>, <<DLE_CHAR>>, <<CR_CHAR>>, <<ETX_CHAR, STX_CHAR>>}
RawInputs == SeqsUpTo(WireBytes, MaxRaw)
Configs == [escape_stx_etx : BOOLEAN, escape_cr : BOOLEAN, add_stx_etx : BOOLEAN]

(***************************************************************************)
(* Slices and the frame of one call.                                       *)
(***************************************************************************)
At(s, i) == s[i + 1]
InBounds(s, i) == i >= 0 /\ i < Len(s)
Take(s, n) == SubSeq(s, 1, n)
Drop(s, n) == SubSeq(s, n + 1, Len(s))

NewCall(op, source_stream, dest_stream, read_len) ==
    [op |-> op, pc |-> "start",
     source_stream |-> source_stream, dest_stream |-> dest_stream,
     encoded_idx |-> 0, source_idx |-> 0, decoded_idx |-> 0,
     read_len |-> read_len, result |-> "None", ret |-> 0, written |-> {}]

Return(f, result, n) ==
    IF f.pc = "done" THEN f ELSE [f EXCEPT !.pc = "done", !.result = result, !.ret = n]
Panic(f) == Return(f, "Panic", 0)
Goto(f, pc) == IF f.pc = "done" THEN f ELSE [f EXCEPT !.pc = pc]

\* dest_stream[i] = b
\* variant: a store also overwrites the byte behind the one it sets
Store_Spill(f, i, b) ==
    IF f.pc = "done" THEN f
    ELSE IF InBounds(f.dest_stream, i + 1)
         THEN [f EXCEPT !.dest_stream[i + 1] = b, !.dest_stream[i + 2] = b,
                        !.written = @ \cup {i, i + 1}]
         ELSE IF InBounds(f.dest_stream, i)
         THEN [f EXCEPT !.dest_stream[i + 1] = b, !.written = @ \cup {i}]
         ELSE Panic(f)

Store(f, i, b) ==
    IF f.pc = "done" THEN f
    ELSE IF InBounds(f.dest_stream, i)
         THEN [f EXCEPT !.dest_stream[i + 1] = b, !.written = @ \cup {i}]
         ELSE Panic(f)
\* *read_len = n
SetReadLen(f, n) == IF f.pc = "done" THEN f ELSE [f EXCEPT !.read_len = n]
IncEncoded(f) == IF f.pc = "done" THEN f ELSE [f EXCEPT !.encoded_idx = @ + 1]
\* variant: the loop does not move on in source_stream
IncSource_Stuck(f) == f

IncSource(f) == IF f.pc = "done" THEN f ELSE [f EXCEPT !.source_idx = @ + 1]
IncDecoded(f) == IF f.pc = "done" THEN f ELSE [f EXCEPT !.decoded_idx = @ + 1]

(***************************************************************************)
(* encode_escaped                                                          *)
(***************************************************************************)
\* a mutant of NeedsEscape: ETX_CHAR is not escaped
NeedsEscape_NoEtx(self, next_byte) ==
    \/ next_byte = STX_CHAR
    \/ (self.escape_cr /\ next_byte = CR_CHAR)

\* a mutant of NeedsEscape: CR_CHAR is escaped whatever escape_cr is
NeedsEscape_AlwaysCr(self, next_byte) ==
    \/ next_byte = STX_CHAR
    \/ next_byte = ETX_CHAR
    \/ next_byte = CR_CHAR

\* the bytes written as DLE_CHAR, byte + 0x40
NeedsEscape(self, next_byte) ==
    \/ next_byte = STX_CHAR
    \/ next_byte = ETX_CHAR
    \/ (self.escape_cr /\ next_byte = CR_CHAR)

EncodeEscapedStart(self, f) ==
    LET max_dest_len == Len(f.dest_stream)
    IN  IF self.add_stx_etx
        THEN IF max_dest_len < 1
             THEN Return(f, "StreamTooShort", 0)
             ELSE Goto(IncEncoded(Store(f, f.encoded_idx, STX_CHAR)), "loop")
        ELSE Goto(f, "loop")

EncodeEscapedBody(self, f) ==
    LET max_dest_len == Len(f.dest_stream)
        next_byte == At(f.source_stream, f.source_idx)
        esc == LET f1 == Store(f, f.encoded_idx, DLE_CHAR)
                   f2 == IncEncoded(f1)
               IN  Store(f2, f2.encoded_idx, next_byte + EscapeShift)
        dbl == LET f1 == Store(f, f.encoded_idx, DLE_CHAR)
                   f2 == IncEncoded(f1)
               IN  Store(f2, f2.encoded_idx, DLE_CHAR)
    IN  IF ~InBounds(f.source_stream, f.source_idx) THEN Panic(f)
        ELSE IF NeedsEscape(self, next_byte)
        THEN IF f.encoded_idx + 1 >= max_dest_len
             THEN Return(f, "StreamTooShort", 0)
             ELSE IncSource(IncEncoded(esc))
        ELSE IF next_byte = DLE_CHAR
        THEN IF f.encoded_idx + 1 >= max_dest_len
             THEN Return(f, "StreamTooShort", 0)
             ELSE IncSource(IncEncoded(dbl))
        ELSE IncSource(IncEncoded(Store(f, f.encoded_idx, next_byte)))

EncodeEscapedLoop(self, f) ==
    IF f.encoded_idx < Len(f.dest_stream) /\ f.source_idx < Len(f.source_stream)
    THEN EncodeEscapedBody(self, f)
    ELSE Goto(f, "tail")

\* a mutant of EncodeEscapedTail: ETX_CHAR is stored without the capacity check
EncodeEscapedTail_NoCheck(self, f) ==
    IF f.source_idx = Len(f.source_stream)
    THEN IF self.add_stx_etx
         THEN LET f1 == IncEncoded(Store(f, f.encoded_idx, ETX_CHAR))
              IN  Return(f1, "Ok", f1.encoded_idx)
         ELSE Return(f, "Ok", f.encoded_idx)
    ELSE Return(f, "StreamTooShort", 0)

EncodeEscapedTail(self, f) ==
    LET max_dest_len == Len(f.dest_stream)
    IN  IF f.source_idx = Len(f.source_stream)
        THEN IF self.add_stx_etx
             THEN IF f.encoded_idx + 1 >= max_dest_len
                  THEN Return(f, "StreamTooShort", 0)
                  ELSE LET f1 == IncEncoded(Store(f, f.encoded_idx, ETX_CHAR))
                       IN  Return(f1, "Ok", f1.encoded_idx)
             ELSE Return(f, "Ok", f.encoded_idx)
        ELSE Return(f, "StreamTooShort", 0)

encode_escaped(self, f) ==
    CASE f.pc = "start" -> EncodeEscapedStart(self, f)
      [] f.pc = "loop" -> EncodeEscapedLoop(self, f)
      [] f.pc = "tail" -> EncodeEscapedTail(self, f)
      [] OTHER -> f

(***************************************************************************)
(* encode_non_escaped                                                      *)
(***************************************************************************)
EncodeNonEscapedStart(self, f) ==
    LET max_dest_len == Len(f.dest_stream)
    IN  IF self.add_stx_etx
        THEN IF max_dest_len < 2
             THEN Return(f, "StreamTooShort", 0)
             ELSE LET f1 == IncEncoded(Store(f, f.encoded_idx, DLE_CHAR))
                      f2 == IncEncoded(Store(f1, f1.encoded_idx, STX_CHAR))
                  IN  Goto(f2, "loop")
        ELSE Goto(f, "loop")

EncodeNonEscapedBody(self, f) ==
    LET max_dest_len == Len(f.dest_stream)
        next_byte == At(f.source_stream, f.source_idx)
        dbl == LET f1 == Store(f, f.encoded_idx, DLE_CHAR)
                   f2 == IncEncoded(f1)
               IN  Store(f2, f2.encoded_idx, DLE_CHAR)
    IN  IF ~InBounds(f.source_stream, f.source_idx) THEN Panic(f)
        ELSE IF next_byte = DLE_CHAR
        THEN IF f.encoded_idx + 1 >= max_dest_len
             THEN Return(f, "StreamTooShort", 0)
             ELSE IncSource(IncEncoded(dbl))
        ELSE IncSource(IncEncoded(Store(f, f.encoded_idx, next_byte)))

EncodeNonEscapedLoop(self, f) ==
    IF f.encoded_idx < Len(f.dest_stream) /\ f.source_idx < Len(f.source_stream)
    THEN EncodeNonEscapedBody(self, f)
    ELSE Goto(f, "tail")

\* a mutant of EncodeNonEscapedTail: the frame ends with a bare ETX_CHAR
EncodeNonEscapedTail_BareEtx(self, f) ==
    LET max_dest_len == Len(f.dest_stream)
    IN  IF f.source_idx = Len(f.source_stream)
        THEN IF self.add_stx_etx
             THEN IF f.encoded_idx + 2 >= max_dest_len
                  THEN Return(f, "StreamTooShort", 0)
                  ELSE LET f1 == IncEncoded(Store(f, f.encoded_idx, ETX_CHAR))
                       IN  Return(f1, "Ok", f1.encoded_idx)
             ELSE Return(f, "Ok", f.encoded_idx)
        ELSE Return(f, "StreamTooShort", 0)

EncodeNonEscapedTail(self, f) ==
    LET max_dest_len == Len(f.dest_stream)
    IN  IF f.source_idx = Len(f.source_stream)
        THEN IF self.add_stx_etx
             THEN IF f.encoded_idx + 2 >= max_dest_len
                  THEN Return(f, "StreamTooShort", 0)
                  ELSE LET f1 == IncEncoded(Store(f, f.encoded_idx, DLE_CHAR))
                           f2 == IncEncoded(Store(f1, f1.encoded_idx, ETX_CHAR))
                       IN  Return(f2, "Ok", f2.encoded_idx)
             ELSE Return(f, "Ok", f.encoded_idx)
        ELSE Return(f, "StreamTooShort", 0)

encode_non_escaped(self, f) ==
    CASE f.pc = "start" -> EncodeNonEscapedStart(self, f)
      [] f.pc = "loop" -> EncodeNonEscapedLoop(self, f)
      [] f.pc = "tail" -> EncodeNonEscapedTail(self, f)
      [] OTHER -> f

(***************************************************************************)
(* decode_escaped                                                          *)
(***************************************************************************)
\* a mutant of IsShifted: CR_CHAR + 0x40 is accepted whatever escape_cr is
IsShifted_AlwaysCr(self, next_byte) ==
    \/ next_byte = STX_CHAR + EscapeShift
    \/ next_byte = ETX_CHAR + EscapeShift
    \/ next_byte = CR_CHAR + EscapeShift

\* the bytes accepted after DLE_CHAR and decoded as byte - 0x40
IsShifted(self, next_byte) ==
    \/ next_byte = STX_CHAR + EscapeShift
    \/ next_byte = ETX_CHAR + EscapeShift
    \/ (self.escape_cr /\ next_byte = CR_CHAR + EscapeShift)

\* variant: the caller's read_len is left as it was on entry
DecodeEscapedStart_KeepReadLen(self, f) ==
    LET dest_stream_len == Len(f.dest_stream)
    IN  IF dest_stream_len < 1
        THEN Return(f, "StreamTooShort", 0)
        ELSE IF ~InBounds(f.source_stream, f.encoded_idx) THEN Panic(f)
        ELSE IF At(f.source_stream, f.encoded_idx) # STX_CHAR
        THEN Return(f, "DecodingError", 0)
        ELSE Goto(IncEncoded(f), "loop")

DecodeEscapedStart(self, f) ==
    LET dest_stream_len == Len(f.dest_stream)
        f0 == SetReadLen(f, 0)
    IN  IF dest_stream_len < 1
        THEN Return(f0, "StreamTooShort", 0)
        ELSE IF ~InBounds(f0.source_stream, f0.encoded_idx) THEN Panic(f0)
        ELSE IF At(f0.source_stream, f0.encoded_idx) # STX_CHAR
        THEN Return(f0, "DecodingError", 0)
        ELSE Goto(IncEncoded(f0), "loop")

DecodeEscapedBody(self, f) ==
    LET source_stream_len == Len(f.source_stream)
        next_byte == At(f.source_stream, f.encoded_idx + 1)
        pair == IF f.encoded_idx + 1 >= source_stream_len
                THEN Return(SetReadLen(f, source_stream_len), "DecodingError", 0)
                ELSE IF next_byte = DLE_CHAR
                THEN IncEncoded(Store(f, f.decoded_idx, next_byte))
                ELSE IF IsShifted(self, next_byte)
                THEN IncEncoded(Store(f, f.decoded_idx, next_byte - EscapeShift))
                ELSE Return(SetReadLen(f, f.encoded_idx + 2), "DecodingError", 0)
    IN  IF At(f.source_stream, f.encoded_idx) = DLE_CHAR
        THEN IncDecoded(IncEncoded(pair))
        ELSE IncDecoded(IncEncoded(
                 Store(f, f.decoded_idx, At(f.source_stream, f.encoded_idx))))

\* a mutant of DecodeEscapedLoop: the scan does not stop at ETX_CHAR
DecodeEscapedLoop_NoEtxStop(self, f) ==
    LET source_stream_len == Len(f.source_stream)
        dest_stream_len == Len(f.dest_stream)
    IN  IF /\ f.encoded_idx < source_stream_len - 1
           /\ f.decoded_idx < dest_stream_len
           /\ At(f.source_stream, f.encoded_idx) # STX_CHAR
        THEN DecodeEscapedBody(self, f)
        ELSE Goto(f, "tail")

DecodeEscapedLoop(self, f) ==
    LET source_stream_len == Len(f.source_stream)
        dest_stream_len == Len(f.dest_stream)
    IN  IF /\ f.encoded_idx < source_stream_len - 1
           /\ f.decoded_idx < dest_stream_len
           /\ At(f.source_stream, f.encoded_idx) # ETX_CHAR
           /\ At(f.source_stream, f.encoded_idx) # STX_CHAR
        THEN DecodeEscapedBody(self, f)
        ELSE Goto(f, "tail")

\* a mutant of DecodeEscapedTail: on success read_len stops at the ETX_CHAR
DecodeEscapedTail_ReadLen(self, f) ==
    LET dest_stream_len == Len(f.dest_stream)
    IN  IF ~InBounds(f.source_stream, f.encoded_idx) THEN Panic(f)
        ELSE IF At(f.source_stream, f.encoded_idx) # ETX_CHAR
        THEN IF f.decoded_idx = dest_stream_len
             THEN Return(SetReadLen(f, 0), "StreamTooShort", 0)
             ELSE Return(SetReadLen(f, f.encoded_idx + 1), "DecodingError", 0)
        ELSE Return(SetReadLen(f, f.encoded_idx), "Ok", f.decoded_idx)

DecodeEscapedTail(self, f) ==
    LET dest_stream_len == Len(f.dest_stream)
    IN  IF ~InBounds(f.source_stream, f.encoded_idx) THEN Panic(f)
        ELSE IF At(f.source_stream, f.encoded_idx) # ETX_CHAR
        THEN IF f.decoded_idx = dest_stream_len
             THEN Return(SetReadLen(f, 0), "StreamTooShort", 0)
             ELSE Return(SetReadLen(f, f.encoded_idx + 1), "DecodingError", 0)
        ELSE Return(SetReadLen(f, f.encoded_idx + 1), "Ok", f.decoded_idx)

decode_escaped(self, f) ==
    CASE f.pc = "start" -> DecodeEscapedStart(self, f)
      [] f.pc = "loop" -> DecodeEscapedLoop(self, f)
      [] f.pc = "tail" -> DecodeEscapedTail(self, f)
      [] OTHER -> f

(***************************************************************************)
(* decode_non_escaped                                                      *)
(***************************************************************************)
DecodeNonEscapedStart(self, f) ==
    LET dest_stream_len == Len(f.dest_stream)
        f0 == SetReadLen(f, 0)
        f1 == IncEncoded(f0)
    IN  IF dest_stream_len < 2
        THEN Return(f0, "StreamTooShort", 0)
        ELSE IF ~InBounds(f0.source_stream, f0.encoded_idx) THEN Panic(f0)
        ELSE IF At(f0.source_stream, f0.encoded_idx) # DLE_CHAR
        THEN Return(f0, "DecodingError", 0)
        ELSE IF ~InBounds(f1.source_stream, f1.encoded_idx) THEN Panic(f1)
        ELSE IF At(f1.source_stream, f1.encoded_idx) # STX_CHAR
        THEN Return(SetReadLen(f1, 1), "DecodingError", 0)
        ELSE Goto(IncEncoded(f1), "loop")

\* variant: a DLE_CHAR STX_CHAR pair inside the frame is counted as read
DecodeNonEscapedBody_ConsumePair(self, f) ==
    LET source_stream_len == Len(f.source_stream)
        next_byte == At(f.source_stream, f.encoded_idx + 1)
        pair == IF f.encoded_idx + 1 >= source_stream_len
                THEN Return(SetReadLen(f, f.encoded_idx), "DecodingError", 0)
                ELSE IF next_byte = STX_CHAR
                THEN Return(SetReadLen(f, f.encoded_idx + 2), "DecodingError", 0)
                ELSE IF next_byte = DLE_CHAR
                THEN IncEncoded(Store(f, f.decoded_idx, next_byte))
                ELSE IF next_byte = ETX_CHAR
                THEN Return(SetReadLen(f, f.encoded_idx + 2), "Ok", f.decoded_idx)
                ELSE Return(SetReadLen(f, f.encoded_idx), "DecodingError", 0)
    IN  IF At(f.source_stream, f.encoded_idx) = DLE_CHAR
        THEN IncDecoded(IncEncoded(pair))
        ELSE IncDecoded(IncEncoded(
                 Store(f, f.decoded_idx, At(f.source_stream, f.encoded_idx))))

DecodeNonEscapedBody(self, f) ==
    LET source_stream_len == Len(f.source_stream)
        next_byte == At(f.source_stream, f.encoded_idx + 1)
        pair == IF f.encoded_idx + 1 >= source_stream_len
                THEN Return(SetReadLen(f, f.encoded_idx), "DecodingError", 0)
                ELSE IF next_byte = STX_CHAR
                THEN Return(SetReadLen(f, f.encoded_idx), "DecodingError", 0)
                ELSE IF next_byte = DLE_CHAR
                THEN IncEncoded(Store(f, f.decoded_idx, next_byte))
                ELSE IF next_byte = ETX_CHAR
                THEN Return(SetReadLen(f, f.encoded_idx + 2), "Ok", f.decoded_idx)
                ELSE Return(SetReadLen(f, f.encoded_idx), "DecodingError", 0)
    IN  IF At(f.source_stream, f.encoded_idx) = DLE_CHAR
        THEN IncDecoded(IncEncoded(pair))
        ELSE IncDecoded(IncEncoded(
                 Store(f, f.decoded_idx, At(f.source_stream, f.encoded_idx))))

DecodeNonEscapedLoop(self, f) ==
    IF f.encoded_idx < Len(f.source_stream) /\ f.decoded_idx < Len(f.dest_stream)
    THEN DecodeNonEscapedBody(self, f)
    ELSE Goto(f, "tail")

\* variant: a full destination reports the bytes read so far
DecodeNonEscapedTail_KeepReadLen(self, f) ==
    IF f.decoded_idx = Len(f.dest_stream)
    THEN Return(SetReadLen(f, f.encoded_idx), "StreamTooShort", 0)
    ELSE Return(SetReadLen(f, f.encoded_idx), "DecodingError", 0)

\* variant: a missing DLE_CHAR ETX_CHAR is reported one byte further on, as
\* decode_escaped reports a missing ETX_CHAR
DecodeNonEscapedTail_ReadPast(self, f) ==
    IF f.decoded_idx = Len(f.dest_stream)
    THEN Return(SetReadLen(f, 0), "StreamTooShort", 0)
    ELSE Return(SetReadLen(f, f.encoded_idx + 1), "DecodingError", 0)

DecodeNonEscapedTail(self, f) ==
    IF f.decoded_idx = Len(f.dest_stream)
    THEN Return(SetReadLen(f, 0), "StreamTooShort", 0)
    ELSE Return(SetReadLen(f, f.encoded_idx), "DecodingError", 0)

decode_non_escaped(self, f) ==
    CASE f.pc = "start" -> DecodeNonEscapedStart(self, f)
      [] f.pc = "loop" -> DecodeNonEscapedLoop(self, f)
      [] f.pc = "tail" -> DecodeNonEscapedTail(self, f)
      [] OTHER -> f

(***************************************************************************)
(* encode / decode: dispatch on escape_stx_etx, run to the return.         *)
(***************************************************************************)
Step(self, f) ==
    IF f.op = "encode"
    THEN IF self.escape_stx_etx THEN encode_escaped(self, f)
                                ELSE encode_non_escaped(self, f)
    ELSE IF self.escape_stx_etx THEN decode_escaped(self, f)
                                ELSE decode_non_escaped(self, f)

RECURSIVE Run(_, _)
Run(self, f) == IF f.pc = "done" THEN f ELSE Run(self, Step(self, f))

Buffer(cap, prior) == [i \in 1..cap |-> prior]

encode(self, source_stream, dest_stream) ==
    Run(self, NewCall("encode", source_stream, dest_stream, 0))

decode(self, source_stream, dest_stream, read_len) ==
    Run(self, NewCall("decode", source_stream, dest_stream, read_len))

\* the bytes a call that returned Ok(n) produced: dest_stream[0 .. n)
Output(f) == Take(f.dest_stream, f.ret)

(***************************************************************************)
(* The codec in use: one configured instance and one call on it at a time. *)
(* A behaviour configures the instance, makes a first call (encode of a    *)
(* payload, or decode of arbitrary bytes) and may go on to decode what the *)
(* encode call produced.  sent, cut and offset record where the input of a *)
(* decode call came from: the payloads whose frames it starts with, how    *)
(* many bytes were cut off its end, and the position of the streaming      *)
(* cursor at which it starts.                                              *)
(***************************************************************************)
VARIABLES dle_encoder, call, sent, cut, offset, threads

vars == <<dle_encoder, call, sent, cut, offset, threads>>

NoCall == Return(NewCall("none", <<>>, <<>>, 0), "None", 0)

Init ==
    /\ dle_encoder \in Configs
    /\ call = NoCall
    /\ sent = <<>>
    /\ cut = 0
    /\ offset = 0
    /\ threads = <<>>

\* encode(payload s, buffer of capacity cap)
Encode(s, cap, prior) ==
    /\ call.op = "none"
    /\ call' = encode(dle_encoder, s, Buffer(cap, prior))
    /\ UNCHANGED <<dle_encoder, sent, cut, offset>>

\* decode(arbitrary bytes, buffer of capacity cap)
DecodeRaw(input, cap, prior, rl) ==
    /\ call.op = "none"
    /\ call' = decode(dle_encoder, input, Buffer(cap, prior), rl)
    /\ UNCHANGED <<dle_encoder, sent, cut, offset>>

\* decode the frame the encode call produced
DecodeFrame(cap, prior, rl) ==
    /\ call.op = "encode"
    /\ call.result = "Ok"
    /\ call' = decode(dle_encoder, Output(call), Buffer(cap, prior), rl)
    /\ sent' = <<call.source_stream>>
    /\ UNCHANGED <<dle_encoder, cut, offset>>

\* decode the frame the encode call produced less its last k bytes, into a
\* buffer larger than any payload
DecodeTruncated(k, prior, rl) ==
    /\ call.op = "encode"
    /\ call.result = "Ok"
    /\ k >= 1
    /\ k <= call.ret
    /\ call' = decode(dle_encoder, Take(Output(call), call.ret - k),
                      Buffer(MaxDecCap, prior), rl)
    /\ sent' = <<call.source_stream>>
    /\ cut' = k
    /\ UNCHANGED <<dle_encoder, offset>>

\* decode a receive buffer that holds the encoded frame followed by the
\* frame of a second payload b, into a buffer larger than any payload
DecodeStream(b, prior, rl) ==
    LET second == encode(dle_encoder, b, Buffer(MaxEncCap, prior))
    IN  /\ call.op = "encode"
        /\ call.result = "Ok"
        /\ second.result = "Ok"
        /\ call' = decode(dle_encoder, Output(call) \o Output(second),
                          Buffer(MaxDecCap, prior), rl)
        /\ sent' = <<call.source_stream, b>>
        /\ UNCHANGED <<dle_encoder, cut, offset>>

\* decode a receive buffer that holds the encoded frame less its last k
\* bytes, followed by the whole frame of a second payload b (a frame cut
\* short by the start of the next one), into a buffer larger than any payload
DecodeCollision(k, b, prior) ==
    LET second == encode(dle_encoder, b, Buffer(MaxEncCap, prior))
    IN  /\ call.op = "encode"
        /\ call.result = "Ok"
        /\ second.result = "Ok"
        /\ k >= 1
        /\ k <= call.ret
        /\ call' = decode(dle_encoder,
                          Take(Output(call), call.ret - k) \o Output(second),
                          Buffer(MaxDecCap, prior), 0)
        /\ sent' = <<call.source_stream, b>>
        /\ cut' = k
        /\ UNCHANGED <<dle_encoder, offset>>

\* advance the cursor by bytes_consumed and decode the rest of the buffer
DecodeNext(prior) ==
    /\ call.op = "decode"
    /\ call.result = "Ok"
    /\ Len(sent) = 2
    /\ cut = 0
    /\ offset = 0
    /\ call' = decode(dle_encoder, Drop(call.source_stream, call.read_len),
                      Buffer(MaxDecCap, prior), call.read_len)
    /\ offset' = call.read_len
    /\ UNCHANGED <<dle_encoder, sent, cut>>

FirstCall ==
    /\ call.op = "none"
    /\ UNCHANGED threads
    /\ \/ \E s \in Payloads, cap \in 0..MaxEncCap, prior \in PriorBytes :
              Encode(s, cap, prior)
       \/ \E input \in RawInputs, cap \in 0..MaxRawCap, prior \in PriorBytes,
             rl \in PriorReadLens :
              DecodeRaw(input, cap, prior, rl)

AfterEncode ==
    /\ call.op = "encode"
    /\ call.result = "Ok"
    /\ UNCHANGED threads
    /\ \/ \E cap \in 0..MaxDecCap, prior \in PriorBytes, rl \in PriorReadLens :
              DecodeFrame(cap, prior, rl)
       \/ \E k \in 1..call.ret, prior \in PriorBytes, rl \in PriorReadLens :
              DecodeTruncated(k, prior, rl)
       \/ \E b \in SecondPayloads, prior \in PriorBytes, rl \in PriorReadLens :
              DecodeStream(b, prior, rl)
       \/ \E k \in 1..MaxCut, b \in SecondPayloads, prior \in PriorBytes :
              DecodeCollision(k, b, prior)

AfterDecode ==
    /\ call.op = "decode"
    /\ UNCHANGED threads
    /\ \E prior \in PriorBytes : DecodeNext(prior)

Next == FirstCall \/ AfterEncode \/ AfterDecode

Spec == Init /\ [][Next]_vars

(***************************************************************************)
(* One call taken step by step: the entry of the function, each iteration  *)
(* of its loop, and what follows the loop.  The functions have no          *)
(* suspension point, so a call that has a step left takes it.              *)
(***************************************************************************)
MaxStepLen == 2

\* the calls that can be started on the instance
Calls ==
    {NewCall("encode", s, Buffer(cap, prior), 0) :
        s \in SeqsUpTo(PayloadBytes, MaxStepLen),
        cap \in 0..(2 * MaxStepLen + 5), prior \in PriorBytes}
    \cup
    {NewCall("decode", input, Buffer(cap, prior), 0) :
        input \in SeqsUpTo(WireBytes, MaxStepLen + 1),
        cap \in 0..MaxStepLen, prior \in PriorBytes}

StepInit ==
    /\ dle_encoder \in Configs
    /\ call \in Calls
    /\ sent = <<>>
    /\ cut = 0
    /\ offset = 0
    /\ threads = <<>>

StepCall ==
    /\ call.pc # "done"
    /\ call' = Step(dle_encoder, call)
    /\ UNCHANGED <<dle_encoder, sent, cut, offset, threads>>

StepNext == StepCall

StepSpec == StepInit /\ [][StepNext]_vars /\ WF_vars(StepNext)

(***************************************************************************)
(* Two calls on the one instance at the same time, each with its own       *)
(* source_stream, dest_stream and read_len, their steps interleaved in any *)
(* order.                                                                  *)
(***************************************************************************)
Threads == {"t1", "t2"}

\* the calls a thread makes: encode of a payload, or decode of the bytes
\* that encode gives for it, into a short or a long buffer
ThreadCalls(self) ==
    {NewCall("encode", s, Buffer(cap, prior), 0) :
        s \in SecondPayloads, cap \in {2, MaxEncCap}, prior \in PriorBytes}
    \cup
    {NewCall("decode", Output(encode(self, s, Buffer(MaxEncCap, prior))),
             Buffer(cap, prior), 0) :
        s \in SecondPayloads, cap \in {1, MaxDecCap}, prior \in PriorBytes}

ThreadInit ==
    /\ dle_encoder \in Configs
    /\ threads \in [Threads -> ThreadCalls(dle_encoder)]
    /\ call = NoCall
    /\ sent = <<>>
    /\ cut = 0
    /\ offset = 0

StepThread(t) ==
    /\ threads[t].pc # "done"
    /\ threads' = [threads EXCEPT ![t] = Step(dle_encoder, threads[t])]
    /\ UNCHANGED <<dle_encoder, call, sent, cut, offset>>

ThreadNext == \E t \in Threads : StepThread(t)

ThreadSpec == ThreadInit /\ [][ThreadNext]_vars

(***************************************************************************)
(* The wire format as the specification states it, and the kinds of call.  *)
(***************************************************************************)
RECURSIVE EscapedPayload(_, _)
EscapedPayload(self, s) ==
    IF s = <<>> THEN <<>>
    ELSE LET b == Head(s)
             e == IF b = STX_CHAR \/ b = ETX_CHAR \/ (self.escape_cr /\ b = CR_CHAR)
                  THEN <<DLE_CHAR, b + EscapeShift>>
                  ELSE IF b = DLE_CHAR THEN <<DLE_CHAR, DLE_CHAR>> ELSE <<b>>
         IN  e \o EscapedPayload(self, Tail(s))

RECURSIVE NonEscapedPayload(_)
NonEscapedPayload(s) ==
    IF s = <<>> THEN <<>>
    ELSE (IF Head(s) = DLE_CHAR THEN <<DLE_CHAR, DLE_CHAR>> ELSE <<Head(s)>>)
         \o NonEscapedPayload(Tail(s))

EscapedWire(self, s) ==
    IF self.add_stx_etx
    THEN <<STX_CHAR>> \o EscapedPayload(self, s) \o <<ETX_CHAR>>
    ELSE EscapedPayload(self, s)

NonEscapedWire(self, s) ==
    IF self.add_stx_etx
    THEN <<DLE_CHAR, STX_CHAR>> \o NonEscapedPayload(s) \o <<DLE_CHAR, ETX_CHAR>>
    ELSE NonEscapedPayload(s)

\* the full encoding of payload s under the configuration
Wire(self, s) ==
    IF self.escape_stx_etx THEN EscapedWire(self, s) ELSE NonEscapedWire(self, s)

Capacity == Len(call.dest_stream)
EncodeReturned == call.op = "encode"
\* decode of arbitrary bytes
RawDecoded == call.op = "decode" /\ sent = <<>>
\* decode of the whole output of an encode call
FrameDecoded == call.op = "decode" /\ Len(sent) = 1 /\ cut = 0 /\ offset = 0
\* decode of the output of an encode call less its last cut bytes
TruncatedDecoded == call.op = "decode" /\ Len(sent) = 1 /\ cut > 0
\* decode of a cut frame followed by a whole frame
CollisionDecoded == call.op = "decode" /\ Len(sent) = 2 /\ cut > 0
\* first and second decode over a buffer holding two frames
StreamFirstDecoded == call.op = "decode" /\ Len(sent) = 2 /\ cut = 0 /\ offset = 0
StreamSecondDecoded == call.op = "decode" /\ Len(sent) = 2 /\ offset > 0

(***************************************************************************)
(* C1  Round trip.  With add_stx_etx set, in both modes and with escape_cr *)
(* on and off: encode of a payload s into a buffer larger than any         *)
(* encoding succeeds, and decode of the encoded bytes, under the same      *)
(* configuration and into a buffer larger than s (and of two bytes at      *)
(* least), returns Ok(Len(s)), leaves s in the buffer and sets read_len to *)
(* the encoded length.                                                     *)
(***************************************************************************)
C1_RoundTrip ==
    /\ (EncodeReturned /\ Capacity > 2 * Len(call.source_stream) + 4)
          => call.result = "Ok"
    /\ (/\ FrameDecoded
        /\ dle_encoder.add_stx_etx
        /\ Capacity > Len(sent[1])
        /\ Capacity >= 2)
          => /\ call.result = "Ok"
             /\ call.ret = Len(sent[1])
             /\ Output(call) = sent[1]
             /\ call.read_len = Len(call.source_stream)

C1_Witness ==
    /\ FrameDecoded
    /\ dle_encoder.add_stx_etx /\ dle_encoder.escape_stx_etx /\ dle_encoder.escape_cr
    /\ sent[1] = <<CR_CHAR, ETX_CHAR, DLE_CHAR>>
    /\ call.result = "Ok"
    /\ Output(call) = sent[1]
    /\ call.read_len = 8

(***************************************************************************)
(* C2  Escaped-mode wire format.  encode with escape_stx_etx set, into a   *)
(* buffer larger than the encoding, returns Ok; and whenever it returns    *)
(* Ok(n), n is the length of EscapedWire and dest_stream[0..n) is exactly  *)
(* EscapedWire: STX_CHAR if add_stx_etx, then per payload byte the pair    *)
(* DLE_CHAR, b + 0x40 (b is STX_CHAR, ETX_CHAR or, with escape_cr,         *)
(* CR_CHAR), the pair DLE_CHAR, DLE_CHAR (b is DLE_CHAR) or b itself, then *)
(* ETX_CHAR if add_stx_etx.  Ok is returned only with the whole payload    *)
(* consumed and the trailing ETX_CHAR written.                             *)
(***************************************************************************)
C2_EscapedWireFormat ==
    (EncodeReturned /\ dle_encoder.escape_stx_etx) =>
        LET w == EscapedWire(dle_encoder, call.source_stream)
        IN  /\ Capacity > Len(w) => call.result = "Ok"
            /\ call.result = "Ok" =>
                  /\ call.ret = Len(w)
                  /\ Output(call) = w
                  /\ call.source_idx = Len(call.source_stream)
                  /\ dle_encoder.add_stx_etx => (call.ret - 1) \in call.written

C2_Witness ==
    /\ EncodeReturned
    /\ dle_encoder = [escape_stx_etx |-> TRUE, escape_cr |-> FALSE, add_stx_etx |-> TRUE]
    /\ call.source_stream = <<DLE_CHAR, ETX_CHAR, STX_CHAR>>
    /\ call.result = "Ok"
    /\ Output(call) = <<STX_CHAR, DLE_CHAR, DLE_CHAR, DLE_CHAR, ETX_CHAR + EscapeShift,
                        DLE_CHAR, STX_CHAR + EscapeShift, ETX_CHAR>>

(***************************************************************************)
(* C3  Non-escaped-mode wire format.  encode with escape_stx_etx cleared,  *)
(* into a buffer larger than the encoding, returns Ok; and whenever it     *)
(* returns Ok(n), n is the length of NonEscapedWire and dest_stream[0..n)  *)
(* is exactly NonEscapedWire: DLE_CHAR, STX_CHAR if add_stx_etx, then per  *)
(* payload byte DLE_CHAR, DLE_CHAR (b is DLE_CHAR) or b itself (STX_CHAR,  *)
(* ETX_CHAR and CR_CHAR unchanged, whatever escape_cr is), then DLE_CHAR,  *)
(* ETX_CHAR if add_stx_etx.                                                *)
(***************************************************************************)
C3_NonEscapedWireFormat ==
    (EncodeReturned /\ ~dle_encoder.escape_stx_etx) =>
        LET w == NonEscapedWire(dle_encoder, call.source_stream)
        IN  /\ Capacity > Len(w) => call.result = "Ok"
            /\ call.result = "Ok" => (call.ret = Len(w) /\ Output(call) = w)

C3_Witness ==
    /\ EncodeReturned
    /\ dle_encoder = [escape_stx_etx |-> FALSE, escape_cr |-> TRUE, add_stx_etx |-> TRUE]
    /\ call.source_stream = <<CR_CHAR, DLE_CHAR, ETX_CHAR>>
    /\ call.result = "Ok"
    /\ Output(call) = <<DLE_CHAR, STX_CHAR, CR_CHAR, DLE_CHAR, DLE_CHAR, ETX_CHAR,
                        DLE_CHAR, ETX_CHAR>>

(***************************************************************************)
(* C4  No panic on any input.  For every input (the empty input, a         *)
(* one-byte input, an input ending right after an escape pair) and every   *)
(* capacity, decode returns Ok, StreamTooShort or DecodingError; it never  *)
(* indexes the input at or past its length.                                *)
(***************************************************************************)
C4_DecodeNeverPanics ==
    call.op = "decode" => call.result \in {"Ok", "StreamTooShort", "DecodingError"}

(***************************************************************************)
(* C5  Undersized output fails cleanly.  With L the length of the full     *)
(* encoding of the payload, encode into a buffer of any capacity below L   *)
(* returns StreamTooShort, and every index it wrote is below the capacity. *)
(***************************************************************************)
C5_UndersizedFailsCleanly ==
    (EncodeReturned /\ Capacity < Len(Wire(dle_encoder, call.source_stream))) =>
        /\ call.result = "StreamTooShort"
        /\ \A i \in call.written : i < Capacity

C5_Witness ==
    /\ EncodeReturned
    /\ dle_encoder = [escape_stx_etx |-> TRUE, escape_cr |-> FALSE, add_stx_etx |-> TRUE]
    /\ call.source_stream = <<DLE_CHAR, ETX_CHAR, STX_CHAR>>
    /\ Capacity = 7
    /\ call.written = 0..6
    /\ call.result = "StreamTooShort"

(***************************************************************************)
(* C6  StreamTooShort only when the buffer cannot hold the result: with L  *)
(* the length of the full encoding of the payload, encode into a buffer of *)
(* capacity >= L (exactly L in particular) returns Ok(L).                  *)
(***************************************************************************)
C6_FittingCapacitySucceeds ==
    (EncodeReturned /\ Capacity >= Len(Wire(dle_encoder, call.source_stream))) =>
        /\ call.result = "Ok"
        /\ call.ret = Len(Wire(dle_encoder, call.source_stream))

(***************************************************************************)
(* C7  No embedded delimiters.  In escaped mode, escape_cr on or off, the  *)
(* output of a successful encode has STX_CHAR only at index 0 and ETX_CHAR *)
(* only at the last index when add_stx_etx is set, and neither of them     *)
(* when it is cleared; every byte written is below 256, and the byte       *)
(* written after an escaping DLE_CHAR is never STX_CHAR or ETX_CHAR, and   *)
(* is DLE_CHAR only for a doubled DLE_CHAR.                                *)
(***************************************************************************)
C7_NoEmbeddedDelimiters ==
    (EncodeReturned /\ dle_encoder.escape_stx_etx /\ call.result = "Ok") =>
        LET out == Output(call)
        IN  /\ \A i \in 1..Len(out) :
                  /\ out[i] \in 0..255
                  /\ out[i] = STX_CHAR => (dle_encoder.add_stx_etx /\ i = 1)
                  /\ out[i] = ETX_CHAR => (dle_encoder.add_stx_etx /\ i = Len(out))
            /\ \A b \in {STX_CHAR, ETX_CHAR, CR_CHAR} :
                  /\ b + EscapeShift < 256
                  /\ b + EscapeShift \notin {STX_CHAR, ETX_CHAR, DLE_CHAR}

C7_Witness ==
    /\ EncodeReturned
    /\ dle_encoder = [escape_stx_etx |-> TRUE, escape_cr |-> TRUE, add_stx_etx |-> TRUE]
    /\ call.source_stream = <<ETX_CHAR, CR_CHAR, STX_CHAR>>
    /\ call.result = "Ok"
    /\ call.ret = 8

(***************************************************************************)
(* C8  Truncated input.  A well-formed frame (either mode) with a          *)
(* non-empty suffix cut off, decoded into a buffer larger than the         *)
(* payload: decode returns DecodingError and sets read_len to the length   *)
(* of the truncated input.                                                 *)
(***************************************************************************)
C8_TruncatedInput ==
    (TruncatedDecoded /\ dle_encoder.add_stx_etx) =>
        /\ call.result = "DecodingError"
        /\ call.read_len = Len(call.source_stream)

(***************************************************************************)
(* C9  Streaming cursor.  With add_stx_etx set and a buffer larger than    *)
(* any payload, decode of the frame of a followed by the frame of b        *)
(* returns a with read_len the length of the frame of a, exactly as decode *)
(* of the first read_len bytes alone does; decode of the input from offset *)
(* read_len on returns b with read_len the length of the frame of b.       *)
(***************************************************************************)
C9_StreamingCursor ==
    /\ (StreamFirstDecoded /\ dle_encoder.add_stx_etx) =>
          LET alone == decode(dle_encoder, Take(call.source_stream, call.read_len),
                              Buffer(Capacity, 0), 0)
          IN  /\ call.result = "Ok"
              /\ Output(call) = sent[1]
              /\ call.read_len = Len(Wire(dle_encoder, sent[1]))
              /\ Len(call.source_stream) =
                    call.read_len + Len(Wire(dle_encoder, sent[2]))
              /\ alone.result = call.result
              /\ alone.ret = call.ret
              /\ alone.read_len = call.read_len
              /\ Output(alone) = Output(call)
    /\ (StreamSecondDecoded /\ dle_encoder.add_stx_etx) =>
          /\ call.result = "Ok"
          /\ Output(call) = sent[2]
          /\ offset = Len(Wire(dle_encoder, sent[1]))
          /\ call.read_len = Len(Wire(dle_encoder, sent[2]))
          /\ call.read_len = Len(call.source_stream)

C9_Witness ==
    /\ StreamSecondDecoded
    /\ dle_encoder.add_stx_etx /\ dle_encoder.escape_stx_etx
    /\ sent = << <<0, ETX_CHAR, DLE_CHAR>>, <<ETX_CHAR, STX_CHAR>> >>
    /\ offset = 7
    /\ call.result = "Ok"
    /\ Output(call) = <<ETX_CHAR, STX_CHAR>>
    /\ call.read_len = 6

(***************************************************************************)
(* The escaped-mode scan as the specification states it: from index i,     *)
(* with d bytes decoded, what the scan meets first: the end of the input   *)
(* (a DLE_CHAR in last place included), an unescaped ETX_CHAR or STX_CHAR, *)
(* or a DLE_CHAR followed by a byte that is no valid escape.               *)
(***************************************************************************)
RECURSIVE ScanEscaped(_, _, _, _)
ScanEscaped(self, in, i, d) ==
    IF i >= Len(in) \/ (At(in, i) = DLE_CHAR /\ i + 1 >= Len(in))
    THEN [meets |-> "end", at |-> i, decoded |-> d]
    ELSE IF At(in, i) = ETX_CHAR THEN [meets |-> "etx", at |-> i, decoded |-> d]
    ELSE IF At(in, i) = STX_CHAR THEN [meets |-> "stx", at |-> i, decoded |-> d]
    ELSE IF At(in, i) = DLE_CHAR
    THEN IF \/ At(in, i + 1) \in {DLE_CHAR, STX_CHAR + EscapeShift, ETX_CHAR + EscapeShift}
            \/ (self.escape_cr /\ At(in, i + 1) = CR_CHAR + EscapeShift)
         THEN ScanEscaped(self, in, i + 2, d + 1)
         ELSE [meets |-> "bad pair", at |-> i, decoded |-> d]
    ELSE ScanEscaped(self, in, i + 1, d + 1)

(***************************************************************************)
(* C10  Malformed escape reported with position (escaped mode).  For an    *)
(* input that starts with STX_CHAR and whose scan meets, before any        *)
(* unescaped STX_CHAR or ETX_CHAR, a DLE_CHAR at index i followed by a     *)
(* byte that is not DLE_CHAR, STX_CHAR + 0x40, ETX_CHAR + 0x40 or (with    *)
(* escape_cr only) CR_CHAR + 0x40, decode into a buffer larger than the    *)
(* bytes decoded before i returns DecodingError with read_len = i + 2.     *)
(***************************************************************************)
C10_MalformedEscapePosition ==
    (/\ RawDecoded
     /\ dle_encoder.escape_stx_etx
     /\ Len(call.source_stream) >= 1
     /\ At(call.source_stream, 0) = STX_CHAR) =>
        LET scan == ScanEscaped(dle_encoder, call.source_stream, 1, 0)
        IN  (scan.meets = "bad pair" /\ Capacity > scan.decoded) =>
                /\ call.result = "DecodingError"
                /\ call.read_len = scan.at + 2

C10_Witness ==
    /\ RawDecoded
    /\ dle_encoder.escape_stx_etx /\ ~dle_encoder.escape_cr
    /\ call.source_stream = <<STX_CHAR, DLE_CHAR, CR_CHAR + EscapeShift, ETX_CHAR>>
    /\ call.result = "DecodingError"
    /\ call.read_len = 3

(***************************************************************************)
(* C11  add_stx_etx governs the decoder too.  With add_stx_etx cleared,    *)
(* decode of the marker-less bytes that encode produced for a payload s,   *)
(* under the same configuration and into a buffer larger than s (and of    *)
(* two bytes at least), returns Ok(Len(s)) and leaves s in the buffer.     *)
(***************************************************************************)
C11_MarkerlessRoundTrip ==
    (/\ FrameDecoded
     /\ ~dle_encoder.add_stx_etx
     /\ Capacity > Len(sent[1])
     /\ Capacity >= 2)
        => /\ call.result = "Ok"
           /\ call.ret = Len(sent[1])
           /\ Output(call) = sent[1]

(***************************************************************************)
(* C12  StreamTooShort only when the buffer cannot hold the result.  For   *)
(* the frame that encode produced, with add_stx_etx set, for a payload of  *)
(* length p, decode into a buffer of capacity p or more (capacity 0 for    *)
(* the empty payload and 1 for a one-byte payload included) returns Ok(p). *)
(***************************************************************************)
C12_ExactCapacitySucceeds ==
    (/\ FrameDecoded
     /\ dle_encoder.add_stx_etx
     /\ Capacity >= Len(sent[1]))
        => /\ call.result = "Ok"
           /\ call.ret = Len(sent[1])

(***************************************************************************)
(* C13  Statelessness across calls.  The outcome of every call (result,    *)
(* returned length, read_len and the bytes of dest_stream below the        *)
(* returned length) is the outcome of the same call made on its own with   *)
(* the same source_stream, the same capacity and the same configuration,   *)
(* into a buffer of other contents and with another read_len on entry: it  *)
(* depends on no earlier call, on no prior contents of dest_stream and on  *)
(* no prior value of read_len.                                             *)
(***************************************************************************)
C13_Stateless ==
    (call.op = "encode" \/ call.op = "decode") =>
        LET alone == IF call.op = "encode"
                     THEN encode(dle_encoder, call.source_stream, Buffer(Capacity, 0))
                     ELSE decode(dle_encoder, call.source_stream, Buffer(Capacity, 0), 7)
        IN  /\ call.result = alone.result
            /\ call.ret = alone.ret
            /\ Output(call) = Output(alone)
            /\ call.op = "decode" => call.read_len = alone.read_len

\* the second decode over a buffer of two frames, entered with the read_len
\* the first decode left behind
C13_Witness ==
    /\ StreamSecondDecoded
    /\ dle_encoder.escape_stx_etx /\ dle_encoder.add_stx_etx
    /\ sent = <<<<0>>, <<DLE_CHAR>>>>
    /\ offset = 3
    /\ call.result = "Ok"
    /\ call.read_len = 4
    /\ Output(call) = <<DLE_CHAR>>

(***************************************************************************)
(* C15  Second STX_CHAR in escaped mode is not consumed.  For an input     *)
(* that starts with STX_CHAR and whose scan meets, before any ETX_CHAR, an *)
(* unescaped STX_CHAR at index i > 0, decode into a buffer larger than the *)
(* bytes decoded before i returns DecodingError with read_len = i.         *)
(***************************************************************************)
C15_SecondStartNotConsumed ==
    (/\ call.op = "decode"
     /\ dle_encoder.escape_stx_etx
     /\ Len(call.source_stream) >= 1
     /\ At(call.source_stream, 0) = STX_CHAR) =>
        LET scan == ScanEscaped(dle_encoder, call.source_stream, 1, 0)
        IN  (scan.meets = "stx" /\ Capacity > scan.decoded) =>
                /\ call.result = "DecodingError"
                /\ call.read_len = scan.at

\* what a scan of the bytes after the DLE_CHAR STX_CHAR header meets first in
\* non-escaped mode: the end of the input, a DLE_CHAR in last place, the
\* closing DLE_CHAR ETX_CHAR, a DLE_CHAR STX_CHAR pair, or a DLE_CHAR followed
\* by any other byte but DLE_CHAR; at is its index, decoded the number of
\* payload bytes before it
RECURSIVE ScanNonEscaped(_, _, _)
ScanNonEscaped(in, i, d) ==
    IF i >= Len(in) THEN [meets |-> "end", at |-> i, decoded |-> d]
    ELSE IF At(in, i) # DLE_CHAR THEN ScanNonEscaped(in, i + 1, d + 1)
    ELSE IF i + 1 >= Len(in) THEN [meets |-> "lone dle", at |-> i, decoded |-> d]
    ELSE IF At(in, i + 1) = DLE_CHAR THEN ScanNonEscaped(in, i + 2, d + 1)
    ELSE IF At(in, i + 1) = ETX_CHAR THEN [meets |-> "etx", at |-> i, decoded |-> d]
    ELSE IF At(in, i + 1) = STX_CHAR THEN [meets |-> "collision", at |-> i, decoded |-> d]
    ELSE [meets |-> "bad pair", at |-> i, decoded |-> d]

HasHeader(in) ==
    Len(in) >= 2 /\ At(in, 0) = DLE_CHAR /\ At(in, 1) = STX_CHAR

(***************************************************************************)
(* C16  Frame collision in non-escaped mode.  For an input that starts     *)
(* with DLE_CHAR STX_CHAR, decoded into a buffer of two bytes at least and *)
(* larger than the bytes decoded before index i: when the scan meets at i  *)
(* a DLE_CHAR followed by STX_CHAR, decode returns DecodingError with      *)
(* read_len = i, and decode of the input from offset read_len on finds the *)
(* header at its bytes 0 and 1 and goes on to the bytes behind it; when    *)
(* the scan meets at i a DLE_CHAR followed by a byte that is not STX_CHAR, *)
(* DLE_CHAR or ETX_CHAR, decode returns DecodingError.                     *)
(***************************************************************************)
C16_FrameCollision ==
    (/\ call.op = "decode"
     /\ ~dle_encoder.escape_stx_etx
     /\ HasHeader(call.source_stream)
     /\ Capacity >= 2) =>
        LET scan == ScanNonEscaped(call.source_stream, 2, 0)
            rest == Drop(call.source_stream, call.read_len)
            following == decode(dle_encoder, rest, Buffer(Capacity, 0), call.read_len)
        IN  /\ (scan.meets = "collision" /\ Capacity > scan.decoded) =>
                  /\ call.result = "DecodingError"
                  /\ call.read_len = scan.at
                  /\ HasHeader(rest)
                  /\ following.encoded_idx >= 2
            /\ (scan.meets = "bad pair" /\ Capacity > scan.decoded) =>
                  call.result = "DecodingError"

\* the frame of <<0, DLE_CHAR>> without its DLE_CHAR ETX_CHAR, run into by
\* the frame of <<CR_CHAR>>
C16_Witness ==
    /\ CollisionDecoded
    /\ ~dle_encoder.escape_stx_etx /\ dle_encoder.add_stx_etx
    /\ call.source_stream = <<DLE_CHAR, STX_CHAR, 0, DLE_CHAR, DLE_CHAR,
                              DLE_CHAR, STX_CHAR, CR_CHAR, DLE_CHAR, ETX_CHAR>>
    /\ call.result = "DecodingError"
    /\ call.read_len = 5

\* a DLE_CHAR followed by a byte that has no meaning after it
C16_WitnessBadPair ==
    /\ RawDecoded
    /\ ~dle_encoder.escape_stx_etx
    /\ call.source_stream = <<DLE_CHAR, STX_CHAR, DLE_CHAR, 0>>
    /\ Capacity = 2
    /\ call.result = "DecodingError"

(***************************************************************************)
(* C17  Bad frame header.  For every non-empty input and every capacity of *)
(* dest_stream: decode with escape_stx_etx set returns DecodingError with  *)
(* read_len = 0 when the first byte is not STX_CHAR; decode with           *)
(* escape_stx_etx cleared returns DecodingError with read_len = 0 when the *)
(* first byte is not DLE_CHAR, and DecodingError with read_len = 1 when    *)
(* the first byte is DLE_CHAR and the second byte is not STX_CHAR.         *)
(***************************************************************************)
C17_BadHeader ==
    (call.op = "decode" /\ Len(call.source_stream) >= 1) =>
        LET in == call.source_stream
        IN  /\ (dle_encoder.escape_stx_etx /\ At(in, 0) # STX_CHAR) =>
                  (call.result = "DecodingError" /\ call.read_len = 0)
            /\ (~dle_encoder.escape_stx_etx /\ At(in, 0) # DLE_CHAR) =>
                  (call.result = "DecodingError" /\ call.read_len = 0)
            /\ (/\ ~dle_encoder.escape_stx_etx
                /\ At(in, 0) = DLE_CHAR
                /\ Len(in) >= 2
                /\ At(in, 1) # STX_CHAR) =>
                  (call.result = "DecodingError" /\ call.read_len = 1)

(***************************************************************************)
(* C18  Output exhausted while decoding.  For the frame that encode        *)
(* produced, with add_stx_etx set, for a payload longer than the capacity  *)
(* of dest_stream, decode returns StreamTooShort with read_len = 0; and    *)
(* whenever decode returns StreamTooShort, read_len is 0 and every index   *)
(* that was written is below the capacity.                                 *)
(***************************************************************************)
C18_OutputExhausted ==
    /\ (/\ FrameDecoded
        /\ dle_encoder.add_stx_etx
        /\ Len(sent[1]) > Capacity) =>
            (call.result = "StreamTooShort" /\ call.read_len = 0)
    /\ (call.op = "decode" /\ call.result = "StreamTooShort") =>
            /\ call.read_len = 0
            /\ \A i \in call.written : i < Capacity

\* three payload bytes, the first two decoded into a buffer of two
C18_Witness ==
    /\ FrameDecoded
    /\ ~dle_encoder.escape_stx_etx /\ dle_encoder.add_stx_etx
    /\ sent[1] = <<DLE_CHAR, 0, CR_CHAR>>
    /\ Capacity = 2
    /\ call.written = {0, 1}
    /\ call.result = "StreamTooShort"
    /\ call.read_len = 0

(***************************************************************************)
(* C19  Lone DLE_CHAR at the end of the input in non-escaped mode.  decode *)
(* with escape_stx_etx cleared, into a buffer of two bytes at least and    *)
(* larger than the bytes decoded before index i, returns DecodingError for *)
(* the one-byte input DLE_CHAR, for an input without the DLE_CHAR STX_CHAR *)
(* header whose last byte is DLE_CHAR, and for an input with the header    *)
(* whose scan meets a DLE_CHAR in last place at index i >= 2, where it     *)
(* also sets read_len = i.                                                 *)
(***************************************************************************)
C19_LoneEscapeAtEnd ==
    (/\ call.op = "decode"
     /\ ~dle_encoder.escape_stx_etx
     /\ Len(call.source_stream) >= 1
     /\ Capacity >= 2) =>
        LET in == call.source_stream
            scan == ScanNonEscaped(in, 2, 0)
        IN  /\ (~HasHeader(in) /\ At(in, Len(in) - 1) = DLE_CHAR) =>
                  call.result = "DecodingError"
            /\ (/\ HasHeader(in)
                /\ scan.meets = "lone dle"
                /\ Capacity > scan.decoded) =>
                  (call.result = "DecodingError" /\ call.read_len = scan.at)

(***************************************************************************)
(* C20  Termination.  Every encode and decode call reaches its return: a   *)
(* call that is started is eventually done.  From one iteration of the     *)
(* loop to the next the index into source_stream (source_idx in encode,    *)
(* encoded_idx in decode) grows, and the indices stay within the length of *)
(* source_stream and of dest_stream.                                       *)
(***************************************************************************)
SourceIndex(f) == IF f.op = "encode" THEN f.source_idx ELSE f.encoded_idx
DestIndex(f) == IF f.op = "encode" THEN f.encoded_idx ELSE f.decoded_idx

C21_ResultBounds ==
    /\ ((call.op = "encode" \/ call.op = "decode") /\ call.result = "Ok") =>
            call.ret <= Capacity
    /\ call.op = "decode" =>
            /\ call.read_len <= Len(call.source_stream)
            /\ call.result = "Ok" =>
                  /\ call.read_len >= (IF dle_encoder.escape_stx_etx THEN 2 ELSE 4)
                  /\ At(call.source_stream, call.read_len - 1) = ETX_CHAR

\* the first decode over a buffer of two frames stops behind the first
\* DLE_CHAR ETX_CHAR, short of the length of the input
C21_Witness ==
    /\ StreamFirstDecoded
    /\ ~dle_encoder.escape_stx_etx /\ dle_encoder.add_stx_etx
    /\ sent = <<<<>>, <<0>>>>
    /\ Len(call.source_stream) = 9
    /\ call.result = "Ok"
    /\ call.ret = 0
    /\ call.read_len = 4

(***************************************************************************)
(* C22  Frame effect of a successful call.  When an encode or decode call  *)
(* has returned Ok(n), the positions of dest_stream written during the     *)
(* call are within 0..n-1 and every position at index n or above holds the *)
(* byte it held before the call; and no step of a call changes its         *)
(* source_stream or the configuration.                                     *)
(***************************************************************************)
FrameEffect(f) ==
    (f.pc = "done" /\ f.result = "Ok") =>
        /\ f.written \subseteq 0..(f.ret - 1)
        /\ \A i \in f.ret..(Len(f.dest_stream) - 1) :
              At(f.dest_stream, i) \in PriorBytes

C22_FrameEffect ==
    /\ [](\A t \in DOMAIN threads : FrameEffect(threads[t]))
    /\ [][/\ \A t \in DOMAIN threads :
                 threads'[t].source_stream = threads[t].source_stream
          /\ dle_encoder' = dle_encoder]_vars

\* a decode that returned Ok(2) into the long buffer, next to an encode that
\* returned Ok(4) into the long buffer
C22_Witness ==
    /\ DOMAIN threads = Threads
    /\ ~dle_encoder.escape_stx_etx /\ dle_encoder.add_stx_etx
    /\ threads["t1"].op = "decode" /\ threads["t1"].pc = "done"
    /\ threads["t1"].source_stream =
           <<DLE_CHAR, STX_CHAR, ETX_CHAR, STX_CHAR, DLE_CHAR, ETX_CHAR>>
    /\ threads["t1"].result = "Ok" /\ threads["t1"].ret = 2
    /\ threads["t1"].written = {0, 1}
    /\ Len(threads["t1"].dest_stream) = MaxDecCap
    /\ At(threads["t1"].dest_stream, 2) \in PriorBytes
    /\ threads["t2"].op = "encode" /\ threads["t2"].pc = "done"
    /\ threads["t2"].source_stream = <<>>
    /\ threads["t2"].result = "Ok" /\ threads["t2"].ret = 4
    /\ threads["t2"].written = {0, 1, 2, 3}
    /\ At(threads["t2"].dest_stream, 4) \in PriorBytes

====
